---- MODULE Spec2Model ----
(***************************************************************************)
(* File-Structure-Sync: the reconciler sync_target and the scanner         *)
(* scan_source of run.py, the command line main(), and the worker and the  *)
(* start control of gui.py, over an abstract directory tree.               *)
(*                                                                         *)
(* A path is the sequence of its components relative to target_dir; the    *)
(* target tree is a set of directories and a function from file paths to   *)
(* file contents.  A file content carries the fingerprint get_fast_md5     *)
(* computes for it, whether get_fast_md5 can read it, and the path the     *)
(* file had when the model started (its identity).                         *)
(***************************************************************************)
EXTENDS Integers, Sequences, FiniteSets, TLC

\* ------------------------------------------------------------- bounds
\* MaxNodes: the entries (files and directories) of the initial target tree
\* MaxMap: the entries of the mapping, and the distinct fingerprints
MaxNodes == 3
MaxMap == 2
\* MaxStarts: the workers the window starts; MaxLogs: the log lines of one
\* worker
MaxStarts == 3
MaxLogs == 2

Names == {"a", "b"}
FPs == 1..MaxMap

\* the paths of the initial tree and of the mapping: a name, or a name in a
\* directory (moves into an existing directory go one level deeper)
Paths == {<<x>> : x \in Names} \cup {<<x, y>> : x, y \in Names}

\* ------------------------------------------------------------- paths
\* os.path.dirname, relative to target_dir (<<>> is target_dir itself)
Dirname(p) == SubSeq(p, 1, Len(p) - 1)

\* os.path.basename
Basename(p) == p[Len(p)]

\* os.path.join(d, name)
Join(d, name) == Append(d, name)

\* the directories strictly between target_dir and p
Ancestors(p) == {SubSeq(p, 1, k) : k \in 1..(Len(p) - 1)}

\* p lies strictly below d
Below(d, p) == Len(d) < Len(p) /\ SubSeq(p, 1, Len(d)) = d

\* ------------------------------------------------------------- inputs
\* the trees a target directory can hold, up to MaxNodes entries
NodeSets ==
  {S \in SUBSET Paths :
     /\ Cardinality(S) <= MaxNodes
     /\ \A p \in S : Len(p) > 1 => Dirname(p) \in S}

Inner(S) == {p \in S : \E q \in S : Len(q) > 1 /\ Dirname(q) = p}

\* the files at the paths FS: any fingerprints, at most one file unreadable
FilesOn(FS) ==
  UNION {{[p \in FS |-> [orig |-> p, hash |-> g[p], ok |-> p \notin U]] :
            g \in [FS -> FPs]} :
         U \in {{}} \cup {{p} : p \in FS}}

Trees ==
  UNION {UNION {{[dirs |-> Inner(S) \cup L, files |-> f] :
                   f \in FilesOn((S \ Inner(S)) \ L)} :
                L \in SUBSET (S \ Inner(S))} :
         S \in NodeSets}

\* the mappings scan_source can write: one relative path per fingerprint,
\* the paths those of distinct files of one tree, in insertion order.  The
\* fingerprints are interchangeable values, so the keys are taken to be
\* 1, 2, ... in the order of the file; the files of the tree hold any of
\* the fingerprints.
Mappings ==
  UNION {{m \in [1..n -> [hash : FPs, rel : Paths]] :
            /\ \A k \in 1..n : m[k].hash = k
            /\ \A j, k \in 1..n :
                 j # k => /\ m[j].rel # m[k].rel
                          /\ ~Below(m[j].rel, m[k].rel)} :
         n \in 0..MaxMap}

\* the orders in which a file system can list the names
Listings ==
  {l \in [1..Cardinality(Names) -> Names] :
     \A j, k \in DOMAIN l : j # k => l[j] # l[k]}

VARIABLES
  files,        \* file path -> [orig, hash, ok]
  dirs,         \* the directories under target_dir
  listing,      \* the order in which os.scandir lists names
  dst,          \* args.dst: "dir", "missing" (no such directory) or "unset"
  mapState,     \* args.map: "valid", "missing" or "invalid" (not JSON)
  mapping,      \* the content of the mapping file, in its order
  dry_run,      \* args.dry_run of the running invocation
  pc,           \* where the invocation stands
  target_index, \* fingerprint -> path
  i,            \* position of the move loop in mapping
  moved_count,
  log,          \* the lines given to log_fn / print
  exitStatus,   \* exit status of the finished invocation
  files0,       \* ghost: files when sync_target was entered
  dirs0,        \* ghost: dirs when sync_target was entered
  performed,    \* ghost: the moves shutil.move carried out
  hashed,       \* ghost: the paths get_fast_md5 was called on
  hist,         \* ghost: the invocations that ended before this one
  mode,         \* args.mode: "scan" or "sync"
  src,          \* args.src: "dir", "missing" (os.walk finds nothing) or "unset"
  written,      \* ghost: scan_source opened the mapping file for writing
  finished,     \* the emissions of Worker.finished: [ok, at]
  run_btn,      \* MainWindow.run_btn.isEnabled()
  workers,      \* the Worker/QThread pairs _start created, in order
  queue,        \* the signals queued for the thread of the window
  log_view      \* the number of lines in MainWindow.log_view

vars == <<files, dirs, listing, dst, mapState, mapping, dry_run, pc, target_index, i,
          moved_count, log, exitStatus, files0, dirs0, performed, hashed,
          hist, mode, src, written, finished, run_btn, workers, queue,
          log_view>>

\* what the sync command leaves alone: the scan side and the window
scanVars == <<mode, src, written>>
guiVars == <<finished, run_btn, workers, queue, log_view>>

Line(kind, name, rel, n) == [kind |-> kind, name |-> name, rel |-> rel, n |-> n]

NoIndex == [h \in {} |-> <<>>]

Init ==
  /\ \E t \in Trees : files = t.files /\ dirs = t.dirs
  /\ listing \in Listings
  /\ dst \in {"dir", "missing", "unset"}
  /\ dst # "dir" => files = NoIndex /\ dirs = {}
  /\ mapState \in {"valid", "missing", "invalid"}
  /\ mapping \in Mappings
  /\ mapState # "valid" => mapping = <<>>
  /\ dry_run \in BOOLEAN
  /\ pc = "main"
  /\ target_index = NoIndex
  /\ i = 1
  /\ moved_count = 0
  /\ log = <<>>
  /\ exitStatus = -1
  /\ files0 = files
  /\ dirs0 = dirs
  /\ performed = <<>>
  /\ hashed = {}
  /\ hist = <<>>
  /\ mode = "sync"
  /\ src = "unset"
  /\ written = FALSE
  /\ finished = <<>>
  /\ run_btn = TRUE
  /\ workers = <<>>
  /\ queue = <<>>
  /\ log_view = 0

\* ------------------------------------------------------------- helpers
\* get_fast_md5: the digest of a readable file, None (here 0) when reading
\* raises; the digest is a function of the content alone
get_fast_md5(fs, p) == IF fs[p].ok THEN fs[p].hash ELSE 0

\* os.walk(target_dir), top-down: the files in the order it yields them.
\* The files of a directory come first, then its subdirectories are walked
\* one after the other; os.scandir lists the entries of a directory in the
\* order ls, which the file system fixes.
RECURSIVE WalkDir(_, _, _, _)
RECURSIVE WalkDirs(_, _, _, _, _)
WalkDir(ls, fs, ds, d) ==
  LET fnames == SelectSeq(ls, LAMBDA x : Join(d, x) \in DOMAIN fs)
      dnames == SelectSeq(ls, LAMBDA x : Join(d, x) \in ds)
  IN [k \in 1..Len(fnames) |-> Join(d, fnames[k])]
       \o WalkDirs(ls, fs, ds, d, dnames)
WalkDirs(ls, fs, ds, d, dnames) ==
  IF dnames = <<>> THEN <<>>
  ELSE WalkDir(ls, fs, ds, Join(d, Head(dnames)))
         \o WalkDirs(ls, fs, ds, d, Tail(dnames))

\* target_index[f_hash] = full_path
Put(idx, h, p) == [x \in DOMAIN idx \cup {h} |-> IF x = h THEN p ELSE idx[x]]

\* the indexing loop over the walk: a later file replaces an earlier one
\* with the same fingerprint, a file that cannot be hashed is left out
RECURSIVE IndexFrom(_, _, _, _)
IndexFrom(fs, o, k, idx) ==
  IF k > Len(o) THEN idx
  ELSE LET f_hash == get_fast_md5(fs, o[k])
       IN IndexFrom(fs, o, k + 1,
                    IF f_hash # 0 THEN Put(idx, f_hash, o[k]) ELSE idx)

\* os.makedirs(os.path.dirname(new_path), exist_ok=True) raises when a
\* component of the directory is an existing file
MakedirsRaises(fs, new_path) == \E a \in Ancestors(new_path) : a \in DOMAIN fs

\* and otherwise leaves every component a directory
Makedirs(ds, new_path) == ds \cup Ancestors(new_path)

\* shutil.move(old_path, new_path): where the file ends up.  A destination
\* that is a directory receives the file under its own name.
RealDst(ds, old_path, new_path) ==
  IF new_path \in ds THEN Join(new_path, Basename(old_path)) ELSE new_path

\* shutil.move raises when the source is gone, or when the destination is a
\* directory that already holds an entry of that name
MoveRaises(fs, ds, old_path, new_path) ==
  \/ old_path \notin DOMAIN fs
  \/ /\ new_path \in ds
     /\ RealDst(ds, old_path, new_path) \in DOMAIN fs \cup ds

\* os.rename(old_path, real_dst): an existing file at real_dst is replaced
Rename(fs, old_path, real_dst) ==
  [p \in (DOMAIN fs \ {old_path}) \cup {real_dst} |->
     IF p = real_dst THEN fs[old_path] ELSE fs[p]]

\* faulty variant of Listdir: the files of the directory not listed
ListdirNoFiles(ds, fs, d) ==
  {p \in ds : Len(p) = Len(d) + 1 /\ Dirname(p) = d}

\* os.listdir(dir_path)
Listdir(ds, fs, d) ==
  {p \in ds \cup DOMAIN fs : Len(p) = Len(d) + 1 /\ Dirname(p) = d}

\* faulty variant of PruneFrom: every directory looked at before any is
\* removed
PruneAtOnce(ds, fs, k) == {d \in ds : Listdir(ds, fs, d) # {}}

\* os.walk(target_dir, topdown=False) with os.rmdir of the empty entries:
\* the directories of depth k are looked at after those below them
RECURSIVE PruneFrom(_, _, _)
PruneFrom(ds, fs, k) ==
  IF k = 0 THEN ds
  ELSE PruneFrom({d \in ds : ~(Len(d) = k /\ Listdir(ds, fs, d) = {})},
                 fs, k - 1)

Deepest(ds) == IF ds = {} THEN 0 ELSE CHOOSE k \in {Len(d) : d \in ds} :
                                        \A d \in ds : Len(d) <= k

Prune(ds, fs) == PruneFrom(ds, fs, Deepest(ds))

\* faulty variant of MappingExists: the existence check left out
MappingExistsUnchecked(ms) == TRUE

\* os.path.exists(mapping_json)
MappingExists(ms) == ms # "missing"

\* faulty variant of MovesFiles: the move made whatever dry_run says
MovesFilesAlways(dry) == TRUE

\* "if not dry_run" before makedirs and shutil.move
MovesFiles(dry) == ~dry

\* "if not dry_run" before the removal of empty directories
PrunesDirs(dry) == ~dry

\* faulty variant of MovesDone: the removal free to start at any entry
MovesDoneAnywhere(k, m) == TRUE

\* the loop over mapping.items() has gone through every entry
MovesDone(k, m) == k > Len(m)

\* the log ends with the closing line: sync_target ran to its end
Completed ==
  /\ pc \in {"returned", "exit"}
  /\ Len(log) > 0
  /\ log[Len(log)].kind = "summary"

\* ------------------------------------------------------------- actions
\* main(), mode sync
Main ==
  /\ pc = "main"
  /\ mode = "sync"
  /\ IF dst = "unset"
       THEN /\ log' = Append(log, Line("usage", "", <<>>, 0))
            /\ pc' = "returned"
       ELSE /\ log' = log
            /\ pc' = "sync"
  /\ UNCHANGED <<files, dirs, listing, dst, mapState, mapping, dry_run, target_index,
                 i, moved_count, exitStatus, files0, dirs0, performed, hashed,
                 hist>>
  /\ UNCHANGED <<scanVars, guiVars>>

\* sync_target: the mapping file is looked for and loaded
LoadMapping ==
  /\ pc = "sync"
  /\ files0' = files
  /\ dirs0' = dirs
  /\ CASE ~MappingExists(mapState) ->
            /\ log' = Append(log, Line("no_mapping", "", <<>>, 0))
            /\ pc' = "returned"
       [] mapState = "invalid" ->
            /\ log' = log
            /\ pc' = "raised"
       [] OTHER ->
            /\ log' = log
            /\ pc' = "index"
  /\ UNCHANGED <<files, dirs, listing, dst, mapState, mapping, dry_run, target_index,
                 i, moved_count, exitStatus, performed, hashed, hist>>
  /\ UNCHANGED <<scanVars, guiVars>>

\* sync_target: the target tree is indexed by fingerprint
IndexTarget ==
  /\ pc = "index"
  /\ target_index' = IndexFrom(files, WalkDir(listing, files, dirs, <<>>),
                              1, NoIndex)
  /\ log' = log \o <<Line("index_start", "", <<>>, 0),
                     Line("match_start", "", <<>>, 0)>>
                \o (IF dry_run THEN <<Line("dry_notice", "", <<>>, 0)>>
                    ELSE <<>>)
  /\ moved_count' = 0
  /\ i' = 1
  /\ pc' = "move"
  /\ hashed' = DOMAIN files
  /\ UNCHANGED <<files, dirs, listing, dst, mapState, mapping, dry_run, exitStatus,
                 files0, dirs0, performed, hist>>
  /\ UNCHANGED <<scanVars, guiVars>>

\* sync_target: one iteration of the loop over mapping.items()
MoveEntry ==
  /\ pc = "move"
  /\ i <= Len(mapping)
  /\ LET f_hash == mapping[i].hash
         rel_path == mapping[i].rel
     IN IF f_hash \notin DOMAIN target_index
          THEN /\ i' = i + 1
               /\ UNCHANGED <<files, dirs, pc, moved_count, log, performed>>
          ELSE
     LET old_path == target_index[f_hash]
         new_path == rel_path
         made == Makedirs(dirs, new_path)
         real_dst == RealDst(made, old_path, new_path)
     IN CASE old_path = new_path ->
               /\ i' = i + 1
               /\ UNCHANGED <<files, dirs, pc, moved_count, log, performed>>
          [] old_path # new_path /\ ~MovesFiles(dry_run) ->
               /\ log' = Append(log, Line(IF dry_run THEN "preview" ELSE "move",
                                          Basename(old_path), rel_path, 0))
               /\ moved_count' = moved_count + 1
               /\ i' = i + 1
               /\ UNCHANGED <<files, dirs, pc, performed>>
          [] old_path # new_path /\ MovesFiles(dry_run)
               /\ MakedirsRaises(files, new_path) ->
               /\ pc' = "raised"
               /\ UNCHANGED <<files, dirs, i, moved_count, log, performed>>
          [] old_path # new_path /\ MovesFiles(dry_run)
               /\ ~MakedirsRaises(files, new_path)
               /\ MoveRaises(files, made, old_path, new_path) ->
               /\ dirs' = made
               /\ pc' = "raised"
               /\ UNCHANGED <<files, i, moved_count, log, performed>>
          [] OTHER ->
               /\ dirs' = made
               /\ files' = Rename(files, old_path, real_dst)
               /\ performed' = Append(performed,
                    [name |-> Basename(old_path), rel |-> rel_path,
                     src |-> old_path, to |-> real_dst,
                     want |-> f_hash, had |-> files[old_path].hash,
                     replaced |-> IF real_dst \in DOMAIN files
                                    THEN {files[real_dst].orig} ELSE {}])
               /\ log' = Append(log, Line(IF dry_run THEN "preview" ELSE "move",
                                          Basename(old_path), rel_path, 0))
               /\ moved_count' = moved_count + 1
               /\ i' = i + 1
               /\ pc' = pc
  /\ UNCHANGED <<listing, dst, mapState, mapping, dry_run, target_index,
                 exitStatus, files0, dirs0, hashed, hist>>
  /\ UNCHANGED <<scanVars, guiVars>>

\* sync_target: the empty directories are removed, unless dry_run
PruneEmpty ==
  /\ pc = "move"
  /\ MovesDone(i, mapping)
  /\ IF PrunesDirs(dry_run)
       THEN /\ log' = Append(log, Line("prune_start", "", <<>>, 0))
            /\ dirs' = Prune(dirs, files)
       ELSE UNCHANGED <<log, dirs>>
  /\ pc' = "summary"
  /\ UNCHANGED <<files, listing, dst, mapState, mapping, dry_run,
                 target_index, i,
                 moved_count, exitStatus, files0, dirs0, performed, hashed,
                 hist>>
  /\ UNCHANGED <<scanVars, guiVars>>

\* sync_target: the closing line
Summary ==
  /\ pc = "summary"
  /\ log' = Append(log, Line("summary", "", <<>>, moved_count))
  /\ pc' = "returned"
  /\ UNCHANGED <<files, dirs, listing, dst, mapState, mapping, dry_run, target_index,
                 i, moved_count, exitStatus, files0, dirs0, performed, hashed,
                 hist>>
  /\ UNCHANGED <<scanVars, guiVars>>

\* the process ends: main() returned, or an exception left it
Exit ==
  /\ pc \in {"returned", "raised"}
  /\ exitStatus' = IF pc = "raised" THEN 1 ELSE 0
  /\ pc' = "exit"
  /\ UNCHANGED <<files, dirs, listing, dst, mapState, mapping, dry_run, target_index,
                 i, moved_count, log, files0, dirs0, performed, hashed,
                 hist>>
  /\ UNCHANGED <<scanVars, guiVars>>

\* the command is run once more, for real, on the tree the first run left
Rerun ==
  /\ pc = "exit"
  /\ hist = <<>>
  /\ hist' = <<[dry_run |-> dry_run, log |-> log, moved_count |-> moved_count,
                exitStatus |-> exitStatus, performed |-> performed,
                completed |-> Completed,
                index |-> target_index, files0 |-> files0, dirs0 |-> dirs0]>>
  /\ dry_run' = FALSE
  /\ pc' = "main"
  /\ target_index' = NoIndex
  /\ i' = 1
  /\ moved_count' = 0
  /\ log' = <<>>
  /\ exitStatus' = -1
  /\ files0' = files
  /\ dirs0' = dirs
  /\ performed' = <<>>
  /\ hashed' = {}
  /\ UNCHANGED <<files, dirs, listing, dst, mapState, mapping>>
  /\ UNCHANGED <<scanVars, guiVars>>

Next ==
  \/ Main
  \/ LoadMapping
  \/ IndexTarget
  \/ MoveEntry
  \/ PruneEmpty
  \/ Summary
  \/ Exit

\* one invocation of the sync command
Spec == Init /\ [][Next]_vars

NextTwice ==
  \/ Next
  \/ Rerun

\* the sync command, run twice in a row with the same mapping
SpecTwice == Init /\ [][NextTwice]_vars

\* ------------------------------------------------------------- scan
\* progress_every, the default of scan_source
progress_every == 10

\* the file names of a source tree, letter by letter: two plain names, a
\* hidden one and the thumbnail cache of Windows
ThumbsName == <<"T", "h", "u", "m", "b", "s", ".", "d", "b">>
ScanNames == {<<"a">>, <<"b">>, <<".", "a">>, ThumbsName}

\* the names of the directories of a source tree
ScanDirNames == {<<"a">>, <<".", "a">>}

\* the paths of a source tree, relative to source_dir
ScanPaths ==
  {<<x>> : x \in ScanNames} \cup {<<d, x>> : d \in ScanDirNames, x \in ScanNames}

\* the source trees, up to MaxNodes entries
ScanTrees ==
  UNION {UNION {{[dirs |-> Inner(S) \cup L, files |-> f] :
                   f \in FilesOn((S \ Inner(S)) \ L)} :
                L \in SUBSET {p \in S \ Inner(S) :
                                Len(p) = 1 /\ p[1] \in ScanDirNames}} :
         S \in {T \in SUBSET ScanPaths :
                  /\ Cardinality(T) <= MaxNodes
                  /\ \A p \in T : Len(p) > 1 => Dirname(p) \in T}}

ScanListings ==
  {l \in [1..Cardinality(ScanNames) -> ScanNames] :
     \A j, k \in DOMAIN l : j # k => l[j] # l[k]}

\* the mapping file a former scan left at args.map
OldMapping == <<[hash |-> 1, rel |-> <<<<"o">>>>]>>

\* source_dir, as the components of its absolute path
SourceDir == <<<<"s">>>>

\* os.pardir
Pardir == <<".", ".">>

\* str.lower, on the letters of the alphabet
UpperCase == <<"A", "B", "C", "D", "E", "F", "G", "H", "I", "J", "K", "L", "M",
               "N", "O", "P", "Q", "R", "S", "T", "U", "V", "W", "X", "Y", "Z">>
LowerCase == <<"a", "b", "c", "d", "e", "f", "g", "h", "i", "j", "k", "l", "m",
               "n", "o", "p", "q", "r", "s", "t", "u", "v", "w", "x", "y", "z">>
ToLower ==
  [c \in {UpperCase[k] : k \in DOMAIN UpperCase} |->
     LowerCase[CHOOSE k \in DOMAIN UpperCase : UpperCase[k] = c]]
LowerChar(c) == IF c \in DOMAIN ToLower THEN ToLower[c] ELSE c
Lower(file) == [k \in DOMAIN file |-> LowerChar(file[k])]

\* str.startswith, for a prefix of one character
StartsWith(file, c) == Len(file) > 0 /\ file[1] = c

\* file.startswith('.') or file.lower() == 'thumbs.db'
IsSkipped(file) ==
  StartsWith(file, ".")
    \/ Lower(file) = <<"t", "h", "u", "m", "b", "s", ".", "d", "b">>

\* the number of leading components path and start share
CommonLen(path, start) ==
  CHOOSE c \in 0..Len(start) :
    /\ c <= Len(path)
    /\ SubSeq(path, 1, c) = SubSeq(start, 1, c)
    /\ (c = Len(start) \/ c = Len(path) \/ path[c + 1] # start[c + 1])

\* faulty variant of Relpath: the path taken relative to a directory next
\* to start
RelpathBeside(path, start) ==
  <<Pardir>> \o SubSeq(path, Len(start), Len(path))

\* os.path.relpath(path, start), on absolute paths: one os.pardir for
\* every component of start that path does not share, then the rest of path
Relpath(path, start) ==
  LET c == CommonLen(path, start)
  IN [k \in 1..(Len(start) - c) |-> Pardir] \o SubSeq(path, c + 1, Len(path))

\* faulty variant of SetEntry: the first path of a fingerprint kept
SetEntryOnce(m, h, rel) ==
  IF \E k \in DOMAIN m : m[k].hash = h THEN m
  ELSE Append(m, [hash |-> h, rel |-> rel])

\* mapping[f_hash] = rel_path: a key that is there keeps its place and
\* takes the new path, a new key goes to the end
SetEntry(m, h, rel) ==
  IF \E k \in DOMAIN m : m[k].hash = h
    THEN [k \in DOMAIN m |->
            IF m[k].hash = h THEN [hash |-> h, rel |-> rel] ELSE m[k]]
    ELSE Append(m, [hash |-> h, rel |-> rel])

\* os.walk(source_dir): it yields nothing when source_dir cannot be listed
ScanWalk(s, ls, fs, ds) ==
  IF s = "dir" THEN WalkDir(ls, fs, ds, <<>>) ELSE <<>>

\* nothing scanned yet
NoScan == [mapping |-> <<>>, count |-> 0, lines |-> <<>>, hashed |-> {}]

\* the loop of scan_source over the walk o, from its k-th file on
RECURSIVE ScanFrom(_, _, _, _)
ScanFrom(fs, o, k, acc) ==
  IF k > Len(o) THEN acc
  ELSE LET file == Basename(o[k])
           full_path == SourceDir \o o[k]
           rel_path == Relpath(full_path, SourceDir)
           f_hash == get_fast_md5(fs, o[k])
           count == acc.count + 1
       IN ScanFrom(fs, o, k + 1,
            IF IsSkipped(file) THEN acc
            ELSE IF f_hash = 0
              THEN [acc EXCEPT !.hashed = @ \cup {o[k]}]
              ELSE [mapping |-> SetEntry(acc.mapping, f_hash, rel_path),
                    count |-> count,
                    lines |-> IF count % progress_every = 0
                                THEN Append(acc.lines,
                                            Line("progress", "", <<>>, count))
                                ELSE acc.lines,
                    hashed |-> acc.hashed \cup {o[k]}])

\* the command line of a scan, a mapping file of a former scan in place
\* or not
InitScan ==
  /\ mode = "scan"
  /\ src \in {"dir", "missing", "unset"}
  /\ \E t \in ScanTrees : files = t.files /\ dirs = t.dirs
  /\ src # "dir" => files = NoIndex /\ dirs = {}
  /\ listing \in ScanListings
  /\ mapState \in {"valid", "missing"}
  /\ mapping = IF mapState = "valid" THEN OldMapping ELSE <<>>
  /\ written = FALSE
  /\ dst = "unset"
  /\ dry_run = FALSE
  /\ pc = "main"
  /\ target_index = NoIndex
  /\ i = 1
  /\ moved_count = 0
  /\ log = <<>>
  /\ exitStatus = -1
  /\ files0 = files
  /\ dirs0 = dirs
  /\ performed = <<>>
  /\ hashed = {}
  /\ hist = <<>>
  /\ finished = <<>>
  /\ run_btn = TRUE
  /\ workers = <<>>
  /\ queue = <<>>
  /\ log_view = 0

syncVars == <<dst, dry_run, target_index, i, moved_count, files0, dirs0,
              performed, hist>>

\* main(), mode scan
ScanMain ==
  /\ pc = "main"
  /\ mode = "scan"
  /\ IF src = "unset"
       THEN /\ log' = Append(log, Line("usage", "", <<>>, 0))
            /\ pc' = "returned"
       ELSE /\ log' = log
            /\ pc' = "scan"
  /\ UNCHANGED <<files, dirs, listing, mapState, mapping, exitStatus, hashed>>
  /\ UNCHANGED <<syncVars, scanVars, guiVars>>

\* scan_source: the walk over source_dir, then the mapping file written
ScanSource ==
  /\ pc = "scan"
  /\ \E r \in {ScanFrom(files, ScanWalk(src, listing, files, dirs), 1, NoScan)} :
        /\ mapping' = r.mapping
        /\ hashed' = r.hashed
        /\ log' = log \o <<Line("scan_start", "", <<>>, 0)>> \o r.lines
                      \o <<Line("scan_done", "", <<>>, r.count),
                           Line("saved", "", <<>>, 0)>>
  /\ mapState' = "valid"
  /\ written' = TRUE
  /\ pc' = "returned"
  /\ UNCHANGED <<files, dirs, listing, exitStatus, mode, src>>
  /\ UNCHANGED <<syncVars, guiVars>>

NextScan ==
  \/ ScanMain
  \/ ScanSource
  \/ Exit

\* one invocation of the scan command
SpecScan == InitScan /\ [][NextScan]_vars

\* target_dir, as the components of its absolute path
TargetDir == <<<<"t">>>>

\* os.path.abspath of an absolute path: every os.pardir takes the
\* component before it away
RECURSIVE Abspath(_)
Abspath(p) ==
  IF p = <<>> THEN <<>>
  ELSE LET front == Abspath(SubSeq(p, 1, Len(p) - 1))
       IN IF p[Len(p)] = Pardir
            THEN SubSeq(front, 1, Len(front) - 1)
            ELSE Append(front, p[Len(p)])

\* new_path = os.path.join(target_dir, rel_path), made absolute
NewPath(rel_path) == Abspath(TargetDir \o rel_path)

\* ------------------------------------------------------------- worker
\* a Worker of gui.py, constructed for a scan or for a sync
InitWorker ==
  \/ Init /\ dst # "unset"
  \/ InitScan /\ src # "unset"

\* Worker.run: scan_source or sync_target is called with the logger that
\* emits Worker.log
WorkerRun ==
  /\ pc = "main"
  /\ pc' = IF mode = "scan" THEN "scan" ELSE "sync"
  /\ UNCHANGED <<files, dirs, listing, mapState, mapping, log, exitStatus,
                 hashed>>
  /\ UNCHANGED <<syncVars, scanVars, guiVars>>

\* Worker.run: the call returned, or an exception was caught; the
\* exception is logged, finished is emitted
WorkerDone ==
  /\ pc \in {"returned", "raised"}
  /\ log' = IF pc = "raised" THEN Append(log, Line("error", "", <<>>, 0))
            ELSE log
  /\ finished' = Append(finished, [ok |-> pc = "returned", at |-> Len(log')])
  /\ pc' = "done"
  /\ UNCHANGED <<files, dirs, listing, mapState, mapping, exitStatus, hashed,
                 run_btn, workers, queue, log_view>>
  /\ UNCHANGED <<syncVars, scanVars>>

NextWorker ==
  \/ WorkerRun
  \/ ScanSource
  \/ LoadMapping
  \/ IndexTarget
  \/ MoveEntry
  \/ PruneEmpty
  \/ Summary
  \/ WorkerDone

\* one Worker, run once
SpecWorker == InitWorker /\ [][NextWorker]_vars

\* ------------------------------------------------------------- window
\* the window as MainWindow.__init__ leaves it: the start control enabled,
\* no worker
InitGui ==
  /\ run_btn = TRUE
  /\ workers = <<>>
  /\ queue = <<>>
  /\ log_view = 0
  /\ finished = <<>>
  /\ mode = "sync"
  /\ src = "unset"
  /\ written = FALSE
  /\ files = NoIndex
  /\ dirs = {}
  /\ listing = <<>>
  /\ dst = "unset"
  /\ mapState = "missing"
  /\ mapping = <<>>
  /\ dry_run = FALSE
  /\ pc = "main"
  /\ target_index = NoIndex
  /\ i = 1
  /\ moved_count = 0
  /\ log = <<>>
  /\ exitStatus = -1
  /\ files0 = files
  /\ dirs0 = dirs
  /\ performed = <<>>
  /\ hashed = {}
  /\ hist = <<>>

runVars == <<files, dirs, listing, mapState, mapping, pc, log, exitStatus,
             hashed>>

\* _validate_inputs: a mapping path is given; a scan has a source
\* directory that exists; a sync has a target directory that exists and a
\* mapping file
ValidInputs(m, map_path, src_dir, dst_dir, map_file) ==
  /\ map_path
  /\ IF m = "scan" THEN src_dir = "dir"
     ELSE dst_dir = "dir" /\ map_file

\* faulty variant of SetRunning: the start control left enabled
SetRunningIdle(running) == TRUE

\* _set_running: run_btn.setEnabled(not running)
SetRunning(running) == ~running

\* the workers whose finished signal _on_finished has not handled
Unhandled == {k \in DOMAIN workers : workers[k].st # "handled"}

\* _start, on a click of the enabled start control
Start ==
  /\ run_btn
  /\ Len(workers) < MaxStarts
  /\ \E m \in {"scan", "sync"}, map_path, map_file \in BOOLEAN,
        src_dir, dst_dir \in {"dir", "missing", "unset"} :
       IF ValidInputs(m, map_path, src_dir, dst_dir, map_file)
         THEN /\ log_view' = 0
              /\ run_btn' = SetRunning(TRUE)
              /\ workers' = Append(workers,
                                   [st |-> "started", mode |-> m, logs |-> 0])
         ELSE UNCHANGED <<log_view, run_btn, workers>>
  /\ UNCHANGED <<queue, finished>>
  /\ UNCHANGED <<runVars, syncVars, scanVars>>

\* worker_thread.started: Worker.run begins in its thread
ThreadStarted ==
  /\ \E k \in DOMAIN workers :
       /\ workers[k].st = "started"
       /\ workers' = [workers EXCEPT ![k].st = "running"]
  /\ UNCHANGED <<run_btn, queue, log_view, finished>>
  /\ UNCHANGED <<runVars, syncVars, scanVars>>

\* Worker.run: logger emits Worker.log, queued for the window
WorkerLog ==
  /\ \E k \in DOMAIN workers :
       /\ workers[k].st = "running"
       /\ workers[k].logs < MaxLogs
       /\ workers' = [workers EXCEPT ![k].logs = @ + 1]
       /\ queue' = Append(queue, [sig |-> "log", w |-> k, ok |-> TRUE])
  /\ UNCHANGED <<run_btn, log_view, finished>>
  /\ UNCHANGED <<runVars, syncVars, scanVars>>

\* Worker.run: finished is emitted, with True or False, queued for the
\* window
WorkerFinished ==
  /\ \E k \in DOMAIN workers, ok \in BOOLEAN :
       /\ workers[k].st = "running"
       /\ workers' = [workers EXCEPT ![k].st = "emitted"]
       /\ queue' = Append(queue, [sig |-> "finished", w |-> k, ok |-> ok])
  /\ UNCHANGED <<run_btn, log_view, finished>>
  /\ UNCHANGED <<runVars, syncVars, scanVars>>

\* the event loop of the window delivers the next queued signal, to
\* _append_log or to _on_finished
Deliver ==
  /\ queue # <<>>
  /\ queue' = Tail(queue)
  /\ IF Head(queue).sig = "log"
       THEN /\ log_view' = log_view + 1
            /\ UNCHANGED <<run_btn, workers>>
       ELSE /\ run_btn' = SetRunning(FALSE)
            /\ workers' = [workers EXCEPT ![Head(queue).w].st = "handled"]
            /\ UNCHANGED log_view
  /\ UNCHANGED finished
  /\ UNCHANGED <<runVars, syncVars, scanVars>>

NextGui ==
  \/ Start
  \/ ThreadStarted
  \/ WorkerLog
  \/ WorkerFinished
  \/ Deliver

\* the window, its start control clicked again and again
SpecGui == InitGui /\ [][NextGui]_vars

\* the tree stays a tree: no path is both file and directory, and every
\* entry below the top level lies in a directory
TypeOK ==
  /\ DOMAIN files \cap dirs = {}
  /\ \A p \in DOMAIN files \cup dirs : Len(p) > 1 => Dirname(p) \in dirs
  /\ pc \in {"main", "sync", "scan", "index", "move", "summary", "returned",
             "raised", "exit", "done"}

\* ------------------------------------------------------------- claims
\* the fingerprints some readable file of the tree held when sync started
HeldAtStart == {files0[p].hash : p \in {q \in DOMAIN files0 : files0[q].ok}}

\* the fingerprints that are keys of the mapping
MappedHashes == {mapping[k].hash : k \in DOMAIN mapping}

\* the (basename, relative destination) pairs a log reports, in order
RECURSIVE ReportedMoves(_)
ReportedMoves(l) ==
  IF l = <<>> THEN <<>>
  ELSE (IF Head(l).kind \in {"move", "preview"}
          THEN <<<<Head(l).name, Head(l).rel>>>> ELSE <<>>)
       \o ReportedMoves(Tail(l))

\* C1: after a real sync ran to its end, every mapping entry whose
\* fingerprint a (readable) target file held at the start has a file with
\* that fingerprint at its relative path.
C1_Aligned ==
  (Completed /\ ~dry_run) =>
    \A k \in DOMAIN mapping :
      mapping[k].hash \in HeldAtStart =>
        /\ mapping[k].rel \in DOMAIN files
        /\ files[mapping[k].rel].hash = mapping[k].hash

\* C2: a real sync that follows a real sync which ran to its end, with the
\* same mapping, moves nothing.
C2_SecondRunMovesNothing ==
  (/\ Len(hist) = 1
   /\ ~hist[1].dry_run
   /\ hist[1].completed
   /\ pc \in {"returned", "raised", "exit"}) =>
     /\ moved_count = 0
     /\ performed = <<>>

\* C3: a dry run leaves the files, their contents and the directories of
\* the target tree as they were when it started.
C3_DryRunNoEffect ==
  dry_run => (files = files0 /\ dirs = dirs0 /\ performed = <<>>)

\* C3 witness: a dry run that ended, reported a planned move into a
\* directory that does not exist, and walked past an empty directory
C3_Witness ==
  /\ dry_run
  /\ Completed
  /\ moved_count > 0
  /\ \E k \in DOMAIN log :
       log[k].kind = "preview" /\ ~(Ancestors(log[k].rel) \subseteq dirs)
  /\ \E d \in dirs : Listdir(dirs, files, d) = {}

\* C4: the real run that follows a dry run on the same tree reports the
\* same moves in the same order with the same count, runs to its end, and
\* each move puts the content with the entry's fingerprint at the entry's
\* relative path.
C4_DryRunMatchesReal ==
  (/\ Len(hist) = 1
   /\ hist[1].dry_run
   /\ hist[1].completed
   /\ pc = "exit") =>
     /\ ReportedMoves(log) = ReportedMoves(hist[1].log)
     /\ moved_count = hist[1].moved_count
     /\ Len(performed) = moved_count
     /\ \A k \in DOMAIN performed :
          /\ performed[k].had = performed[k].want
          /\ performed[k].to = performed[k].rel

\* C5: after a sync, every (readable) file whose fingerprint is no key of
\* the mapping is the same file at the same path as before.
C5_UnmappedUntouched ==
  Completed =>
    \A p \in DOMAIN files0 :
      (files0[p].ok /\ files0[p].hash \notin MappedHashes) =>
        /\ p \in DOMAIN files
        /\ files[p] = files0[p]

\* C6: no move replaces a file that occupies its destination.
C6_NoOverwrite ==
  \A k \in DOMAIN performed : performed[k].replaced = {}

\* C7: a mapping entry whose relative path already held a (readable) file
\* with its fingerprint when sync started is not moved, not reported as a
\* move, and the file stays where it is.
C7_AlreadyCorrectNoOp ==
  Completed =>
    \A k \in DOMAIN mapping :
      (/\ mapping[k].rel \in DOMAIN files0
       /\ files0[mapping[k].rel].ok
       /\ files0[mapping[k].rel].hash = mapping[k].hash) =>
         /\ \A j \in DOMAIN performed : performed[j].rel # mapping[k].rel
         /\ \A j \in DOMAIN log :
              log[j].kind \in {"move", "preview"} =>
                log[j].rel # mapping[k].rel
         /\ mapping[k].rel \in DOMAIN files
         /\ files[mapping[k].rel] = files0[mapping[k].rel]

\* C8: once the mapping is loaded, a sync always goes through every mapping
\* entry, the pruning phase (unless dry_run) and the closing line, whatever
\* happens to single files.
C8_PerFileErrorsNonFatal ==
  (pc = "exit" /\ dst # "unset" /\ mapState = "valid") =>
    /\ i = Len(mapping) + 1
    /\ Completed
    /\ (~dry_run =>
          \E k \in DOMAIN log : log[k].kind = "prune_start")

\* C9: with no mapping file, sync_target reports it and returns: nothing is
\* fingerprinted, indexed, moved, created or removed.
C9_MissingMappingAborts ==
  (mapState = "missing") =>
    /\ hashed = {}
    /\ target_index = NoIndex
    /\ performed = <<>>
    /\ files = files0
    /\ dirs = dirs0
    /\ (pc \in {"returned", "exit"} /\ dst # "unset") =>
         log = <<Line("no_mapping", "", <<>>, 0)>>

\* C9 witness: the invocation ended on a populated target tree with the
\* mapping file missing
C9_Witness ==
  /\ mapState = "missing"
  /\ dst = "dir"
  /\ pc = "exit"
  /\ DOMAIN files # {}
  /\ \E d \in dirs : Listdir(dirs, files, d) = {}
  /\ log = <<Line("no_mapping", "", <<>>, 0)>>

\* C10: the sync command, given --dst, ends with status 0 when the sync ran
\* to its end and with another status when the target directory or the
\* mapping file is missing.
C10_ExitStatus ==
  (pc = "exit" /\ dst # "unset") =>
    /\ Completed => exitStatus = 0
    /\ (dst = "missing" \/ mapState = "missing") => exitStatus # 0

\* C11: a scan of a source directory that is missing or cannot be read
\* never opens the mapping file for writing and ends with a status other
\* than 0.
C11_MissingSourceFails ==
  (mode = "scan" /\ src = "missing") =>
    /\ ~written
    /\ mapping = (IF mapState = "valid" THEN OldMapping ELSE <<>>)
    /\ pc = "exit" => exitStatus # 0

\* C12: after a sync that was no dry run ran to its end, no directory
\* under target_dir is empty.
C12_NoEmptyDirLeft ==
  (mode = "sync" /\ Completed /\ ~dry_run) =>
    \A d \in dirs : Listdir(dirs, files, d) # {}

\* C12 witness: a real sync ran to its end and removed a directory that
\* held nothing but a directory at the start
C12_Witness ==
  /\ mode = "sync"
  /\ Completed
  /\ ~dry_run
  /\ \E d \in dirs0 \ dirs :
       /\ Listdir(dirs0, files0, d) # {}
       /\ Listdir(dirs0, files0, d) \subseteq dirs0

\* the files of the source tree a scan has to record: the name starts with
\* no dot, is not thumbs.db in any spelling, and the file can be read
Recorded ==
  {p \in DOMAIN files :
     /\ Basename(p)[1] # "."
     /\ Lower(Basename(p)) # <<"t", "h", "u", "m", "b", "s", ".", "d", "b">>
     /\ files[p].ok}

\* the place of the file p in the traversal o
PlaceIn(o, p) == CHOOSE k \in DOMAIN o : o[k] = p

\* C13: the mapping a scan wrote has exactly the fingerprints of the
\* recorded files as keys, each key once, and gives each key the path,
\* relative to the source root, of the last recorded file of the traversal
\* that has this fingerprint.
C13_ScanWritesReference ==
  (mode = "scan" /\ written) =>
    LET o == WalkDir(listing, files, dirs, <<>>)
        rec == Recorded
    IN /\ {mapping[k].hash : k \in DOMAIN mapping} = {files[p].hash : p \in rec}
       /\ \A j, k \in DOMAIN mapping :
            j # k => mapping[j].hash # mapping[k].hash
       /\ \A k \in DOMAIN mapping :
            /\ mapping[k].rel \in rec
            /\ files[mapping[k].rel].hash = mapping[k].hash
            /\ \A q \in rec :
                 files[q].hash = mapping[k].hash =>
                   PlaceIn(o, q) <= PlaceIn(o, mapping[k].rel)

\* C13 witness: a scan ended on a tree with two recorded files of one
\* fingerprint in one directory and a file it had to leave out
C13_Witness ==
  /\ mode = "scan"
  /\ written
  /\ pc = "exit"
  /\ \E p, q \in Recorded :
       /\ p # q
       /\ Dirname(p) = Dirname(q)
       /\ files[p].hash = files[q].hash
  /\ DOMAIN files # Recorded

\* the operation the worker ran did what it is for: the scan saved its
\* mapping, the sync reached its closing line
OperationSucceeded ==
  /\ Len(log) > 0
  /\ log[Len(log)].kind \in {"saved", "summary"}

\* C14: a worker that ran emitted finished once, after its last log line,
\* with True when the operation succeeded and False when it failed; a
\* worker that still runs has emitted none.
C14_FinishedOnce ==
  /\ pc # "done" => finished = <<>>
  /\ (pc = "done" /\ (mode = "sync" => dst = "dir")) =>
       /\ Len(finished) = 1
       /\ finished[1].at = Len(log)
       /\ finished[1].ok = OperationSucceeded

\* the removal of empty directories has started
PruneStarted == \E k \in DOMAIN log : log[k].kind = "prune_start"

\* C15: once a move was performed the index holds the fingerprint of every
\* file the tree had at the start, as the full walk gives it; the removal
\* of empty directories starts only when every mapping entry was gone
\* through, after which no move follows; while an entry is still to come
\* no directory the tree had is gone.
C15_PhasesOrdered ==
  mode = "sync" =>
    /\ performed # <<>> =>
         /\ hashed = DOMAIN files0
         /\ target_index
              = IndexFrom(files0, WalkDir(listing, files0, dirs0, <<>>),
                          1, NoIndex)
    /\ PruneStarted =>
         /\ i = Len(mapping) + 1
         /\ pc \in {"summary", "returned", "exit"}
    /\ (pc \in {"main", "sync", "index"} \/ (pc = "move" /\ i <= Len(mapping)))
         => dirs0 \subseteq dirs

\* C15 witness: a real sync ended after it moved a file into a directory
\* it made and then removed a directory
C15_Witness ==
  /\ mode = "sync"
  /\ Completed
  /\ PruneStarted
  /\ \E k \in DOMAIN performed :
       ~(Ancestors(performed[k].to) \subseteq dirs0)
  /\ dirs0 \ dirs # {}

\* C16: at most one worker is between its start and the handling of its
\* finished signal; while there is one the start control is disabled; when
\* every worker started was handled the control is enabled.
C16_OneWorkerAtATime ==
  /\ Cardinality(Unhandled) <= 1
  /\ Unhandled # {} => ~run_btn
  /\ Unhandled = {} => run_btn

\* C16 witness: the completion of a worker was handled, and the next
\* worker runs with the start control disabled
C16_Witness ==
  /\ \E j, k \in DOMAIN workers :
       /\ j < k
       /\ workers[j].st = "handled"
       /\ workers[k].st = "running"
  /\ ~run_btn
  /\ queue = <<>>

\* C17: when a real sync comes to a mapping entry whose fingerprint is in
\* the index, the indexed path still holds a file with that fingerprint.
C17_IndexFresh ==
  (/\ mode = "sync"
   /\ ~dry_run
   /\ pc = "move"
   /\ i <= Len(mapping)
   /\ mapping[i].hash \in DOMAIN target_index) =>
     /\ target_index[mapping[i].hash] \in DOMAIN files
     /\ files[target_index[mapping[i].hash]].hash = mapping[i].hash

\* C18: once the removal of empty directories has run, every directory on
\* the way to a file is still there, every file of the start that no move
\* replaced is still in the tree, and a target directory that had entries
\* is still a directory.
C18_PruneSafe ==
  (mode = "sync" /\ PruneStarted) =>
    /\ \A p \in DOMAIN files : Ancestors(p) \subseteq dirs
    /\ {files[p].orig : p \in DOMAIN files}
         = {files0[p].orig : p \in DOMAIN files0}
             \ UNION {performed[k].replaced : k \in DOMAIN performed}
    /\ (DOMAIN files0 # {} \/ dirs0 # {}) => dst = "dir"

\* C18 witness: after the removal a directory is left whose entries are
\* all directories, kept for a file further down
C18_Witness ==
  /\ mode = "sync"
  /\ PruneStarted
  /\ Completed
  /\ \E d \in dirs :
       /\ Listdir(dirs, files, d) \subseteq dirs
       /\ \E p \in DOMAIN files : Below(d, p)

\* C19: every relative path of a mapping a scan wrote is the path of a
\* file of the scanned tree, has no os.pardir in it, and gives sync_target
\* a destination strictly below target_dir.
C19_Contained ==
  (mode = "scan" /\ written) =>
    \A k \in DOMAIN mapping :
      /\ mapping[k].rel \in DOMAIN files
      /\ \A j \in DOMAIN mapping[k].rel : mapping[k].rel[j] # Pardir
      /\ Below(SourceDir, Abspath(SourceDir \o mapping[k].rel))
      /\ Below(TargetDir, NewPath(mapping[k].rel))

\* C19 witness: a scan ended with a file of a subdirectory in its mapping
C19_Witness ==
  /\ mode = "scan"
  /\ written
  /\ pc = "exit"
  /\ \E k \in DOMAIN mapping : Len(mapping[k].rel) = 2

====
